---------------------------- MODULE Spec2Model ----------------------------
(***************************************************************************)
(* Timer platform: a durable store of timer rows, a Memory Loader that     *)
(* refreshes an in-memory cache of near-term pending timers, an Execution  *)
(* Task (Ticker) that claims due cached timers and spawns callback tasks   *)
(* (Dispatcher), and the admission handlers create / update / cancel.      *)
(* Time is counted in whole seconds.                                       *)
(***************************************************************************)
EXTENDS Integers, Sequences, FiniteSets, Bags, TLC

(* ------------------------------ bounds --------------------------------- *)
\* Largest number of timer rows ever created.
MaxTimers == 2
\* Last instant (seconds) the clock reaches in the asynchronous specification.
MaxTime == 8
\* Largest number of admission requests between their read and their write.
MaxInflight == 1
\* Largest number of create, update and cancel requests in a run.
MaxRequests == 3
\* Steady-state specification: rows created, last instant of the clock.
MaxSteadyTimers == 1
MaxSteadyTime == 40
\* Missed-refresh specification: rows created, last instant of the clock.
MaxMissedTimers == 1
MaxMissedTime == 91
\* Two-engine specification: rows created.
MaxRaceTimers == 1
\* Second-refresh specification: rows created, last instant of the clock.
MaxRefreshTimers == 1
MaxRefreshTime == 31
\* Restart specification: rows created, last instant of the clock.
MaxRestartTimers == 1
MaxRestartTime == 8
\* Claim-order specification: rows created, last instant of the clock.
MaxOrderTimers == 2
MaxOrderTime == 30
\* Admission specification: rows created, requests, last instant of the clock.
MaxAdmissionTimers == 1
MaxAdmissionRequests == 3
MaxAdmissionTime == 8
\* Dispatch specification: rows created, last instant of the clock.
MaxDispatchTimers == 2
MaxDispatchTime == 8
\* List specification: rows created, requests, last instant of the clock.
MaxListTimers == 2
MaxListRequests == 3
MaxListTime == 7
\* Cache-swap specification: rows created, last instant of the clock.
MaxSwapTimers == 2
MaxSwapTime == 30
\* Failed-refresh specification: rows created, last instant of the clock.
MaxLoaderErrTimers == 1
MaxLoaderErrTime == 31
\* Failed-claim specification: rows created, last instant of the clock.
MaxClaimErrTimers == 2
MaxClaimErrTime == 8
\* Window specification: rows created, last instant at which a request
\* arrives, last instant of the clock.
MaxWindowTimers == 1
MaxWindowRequestTime == 0
MaxWindowTime == 361
\* Cache-frame specification: rows created, requests, last instant of the clock.
MaxFrameTimers == 1
MaxFrameRequests == 2
MaxFrameTime == 7
\* Update specification: rows created, last instant at which a row is
\* created, requests, last instant of the clock.
MaxUpdateTimers == 2
MaxUpdateCreateTime == 0
MaxUpdateRequests == 3
MaxUpdateTime == 6
\* the outcome specification: timers, request instant, clock
MaxOutcomeTimers == 1
MaxOutcomeRequests == 2
MaxOutcomeRequestTime == 0
MaxOutcomeTime == 8
\* the reclaim specification: timers, request instant, clock
MaxReclaimTimers == 1
MaxReclaimRequestTime == 0
MaxReclaimTime == 32
\* the callback specification: timers, requests, clock
MaxCallbackTimers == 1
MaxCallbackRequests == 3
MaxCallbackTime == 2

(* ------------------------- program constants --------------------------- *)
\* scheduler.rs: interval(Duration::from_secs(30))
LOAD_INTERVAL == 30
\* scheduler.rs: interval(Duration::from_secs(1))
TICK_INTERVAL == 1
\* api_create_timer.rs / api_update_timer.rs: now + Duration::seconds(5)
MIN_LEAD == 5
\* db.rs: NOW() - INTERVAL '5 minutes'
LOOKBACK == 300
\* db.rs: NOW() + INTERVAL '1 minute'
LOOKAHEAD == 60

(* ------------------------------ values --------------------------------- *)
\* Option::None of last_error (SQL NULL); an error message is the sequence of
\* the pieces its format string joins
NoError == << >>
\* Option::None of executed_at (SQL NULL)
NoTime == -1

Engines == {1, 2}

\* models.rs TimerStatus
Pending == "pending"
Executing == "executing"
Completed == "completed"
Failed == "failed"
Canceled == "canceled"
TimerStatus == {Pending, Executing, Completed, Failed, Canceled}

\* models.rs CallbackConfig::Http: two webhook targets (stubs A, B)
StubA == [tag |-> "http", url |-> "http://stub-a/recv"]
StubB == [tag |-> "http", url |-> "http://stub-b/recv"]

\* models.rs CallbackConfig::Nats: a subject of the message bus
TopicA == [tag |-> "nats", topic |-> "timers.fired"]

\* Callback configurations a create request may carry.
CreateConfigs == {StubA}

\* Callback configurations of both variants, in the callback specification; each
\* passes the handlers' validation (an http:// URL, a non-empty topic with the
\* NATS client configured).
CallbackConfigs == {StubA, TopicA}

\* Option<serde_json::Value> of metadata: None (SQL NULL) and two documents
NoMeta == "null"
MetaA == "meta-a"
MetaB == "meta-b"

\* The metadata a create request carries.
CreateMetadata == MetaA

\* Bodies an update request may carry: which of execute_at and callback it
\* supplies, the offset of execute_at from the request's clock read, the callback.
UpdateRequests ==
    { [hasAt |-> TRUE,  lead |-> 7, hasCb |-> TRUE,  callback_config |-> StubB,
        hasMeta |-> FALSE, metadata |-> NoMeta],
      [hasAt |-> TRUE,  lead |-> 7, hasCb |-> FALSE, callback_config |-> StubB,
        hasMeta |-> FALSE, metadata |-> NoMeta],
      [hasAt |-> FALSE, lead |-> 7, hasCb |-> TRUE,  callback_config |-> StubB,
        hasMeta |-> FALSE, metadata |-> NoMeta] }

\* models.rs / api_create_timer.rs: discriminator column derived from the variant
CallbackTypeOf(cfg) == cfg.tag

\* models.rs HTTPCallback.url / NATSCallback.topic: where a callback goes to
TargetOf(cfg) == IF cfg.tag = "http" THEN cfg.url ELSE cfg.topic

\* Offsets of execute_at from the request's clock read that a create request
\* may ask for: in the asynchronous, the steady-state and the missed-refresh
\* specification.
Leads == {6, 7}
SteadyLeads == {6, 7}
MissedLeads == {6, 61}
RefreshLeads == {6, 30}
OrderLeads == {6, 7}
AdmissionLeads == {4, 5, 6}
SwapLeads == {30}
LoaderErrLeads == {6, 31}
WindowLeads == {60, 61}
UpdateLeads == {6}
OutcomeLeads == {6}
CallbackLeads == {60}
ReclaimLeads == {6, 30}

\* Bodies an update request may carry in the update specification: no field,
\* each one of execute_at, callback and metadata alone, and all three.
UpdateFields ==
    { [ hasAt |-> f[1], lead |-> 7, hasCb |-> f[2], callback_config |-> StubB,
        hasMeta |-> f[3], metadata |-> IF f[3] THEN MetaB ELSE NoMeta ] :
          f \in { << FALSE, FALSE, FALSE >>, << TRUE, FALSE, FALSE >>,
                  << FALSE, TRUE, FALSE >>, << FALSE, FALSE, TRUE >>,
                  << TRUE, TRUE, TRUE >> } }

\* Bodies an update request may carry in the admission specification.
AdmissionUpdates ==
    { [hasAt |-> TRUE,  lead |-> 5, hasCb |-> FALSE, callback_config |-> StubB,
        hasMeta |-> FALSE, metadata |-> NoMeta],
      [hasAt |-> TRUE,  lead |-> 6, hasCb |-> FALSE, callback_config |-> StubB,
        hasMeta |-> FALSE, metadata |-> NoMeta],
      [hasAt |-> FALSE, lead |-> 0, hasCb |-> TRUE,  callback_config |-> StubB,
        hasMeta |-> FALSE, metadata |-> NoMeta] }

\* Bodies an update request may carry in the callback specification: execute_at
\* alone, metadata alone, a callback of either variant.
CallbackUpdates ==
    { [hasAt |-> TRUE,  lead |-> 60, hasCb |-> FALSE, callback_config |-> StubB,
        hasMeta |-> FALSE, metadata |-> NoMeta],
      [hasAt |-> FALSE, lead |-> 0, hasCb |-> FALSE, callback_config |-> StubB,
        hasMeta |-> TRUE, metadata |-> MetaB],
      [hasAt |-> FALSE, lead |-> 0, hasCb |-> TRUE,  callback_config |-> StubB,
        hasMeta |-> FALSE, metadata |-> NoMeta],
      [hasAt |-> FALSE, lead |-> 0, hasCb |-> TRUE,  callback_config |-> TopicA,
        hasMeta |-> FALSE, metadata |-> NoMeta] }

\* HTTP statuses the webhook target may answer with.
HttpStatuses == {200, 500}

\* HTTP statuses on both sides of the success range.
BoundaryStatuses == {200, 299, 300, 500}

\* Option<i64> and Option<String> of a query string
NoneInt == [some |-> FALSE, val |-> 0]
SomeInt(n) == [some |-> TRUE, val |-> n]
NoneStr == [some |-> FALSE, val |-> ""]
SomeStr(x) == [some |-> TRUE, val |-> x]

\* api_list_timers.rs ListTimersQuery: query strings a list request may carry:
\* every pairing of the limits and offsets around the clamps, and queries with
\* a status filter, a sort field and a sort order, valid and invalid
ListLimits == {NoneInt} \cup { SomeInt(n) : n \in {-1, 0, 1, 2, 200, 201} }
ListOffsets == {NoneInt} \cup { SomeInt(n) : n \in {-1, 0, 1} }
ListQueries ==
    { [ status |-> NoneStr, limit |-> l, offset |-> o, sort |-> NoneStr,
        order |-> NoneStr ] : l \in ListLimits, o \in ListOffsets }
    \cup
    { [ status |-> st, limit |-> SomeInt(1), offset |-> NoneInt, sort |-> so,
        order |-> ord ] :
          st \in {SomeStr(Pending), SomeStr(Executing), SomeStr("done")},
          so \in {SomeStr("execute_at"), SomeStr("id")},
          ord \in {SomeStr("asc"), SomeStr("up")} }

\* Query strings a list request may carry in the cache-frame specification.
FrameQueries ==
    { [ status |-> NoneStr, limit |-> NoneInt, offset |-> NoneInt,
        sort |-> NoneStr, order |-> NoneStr ] }

VARIABLES
    now,        \* wall clock, seconds
    store,      \* the timers table: id -> row
    running,    \* engine instances started against the store
    cache,      \* per engine: TimerCache, id -> Timer snapshot
    nextLoad,   \* per engine: Memory Loader interval deadline
    loaderPc,   \* per engine: "idle" | "swap"
    loaderBuf,  \* per engine: rows returned by the Loader's query
    nextTick,   \* per engine: Execution Task interval deadline
    tickerPc,   \* per engine: "idle" | "claim" | "remove"
    dueTimers,  \* per engine: due_timers still to be claimed in this tick
    tasks,      \* bag of live callback tasks
    inflight,   \* admission requests between db_get_timer and their write
    requests,   \* number of create, update and cancel requests so far
    emitted,    \* per id: number of outbound callbacks sent
    lastSent,   \* the most recent outbound callback
    resched,    \* per id: the last update applied while the row was pending
    loadMissed, \* per engine: the previous Loader refresh failed
    response,   \* the most recent response of an admission handler
    outcome     \* the most recent result of a callback task

vars == << now, store, running, cache, nextLoad, loaderPc, loaderBuf, nextTick,
           tickerPc, dueTimers, tasks, inflight, requests, emitted, lastSent,
           resched, loadMissed, response, outcome >>

engineVars == << cache, nextLoad, loaderPc, loaderBuf, nextTick, tickerPc,
                 dueTimers, loadMissed >>

NoSent == [id |-> 0, url |-> "", at |-> NoTime]

\* no admission request has been answered yet
NoResponse == [ n |-> 0, op |-> "none", id |-> 0, hasAt |-> FALSE, lead |-> 0,
                execute_at |-> NoTime, status |-> 0, code |-> 0 ]

\* no callback task has finished yet
NoOutcome == [id |-> 0, kind |-> "none", code |-> 0, recorded |-> TRUE]
NoResched == [at |-> NoTime]

(* ----------------------------- helpers --------------------------------- *)
\* all orderings of a finite set as sequences
RECURSIVE Perms(_)
Perms(S) ==
    IF S = {} THEN { << >> }
    ELSE UNION { { <<x>> \o p : p \in Perms(S \ {x}) } : x \in S }

\* restriction of a function to a subset of its domain
Restrict(f, S) == [x \in S |-> f[x]]

(* ------------------------------- Store --------------------------------- *)
\* the timers table: values of the columns the INSERT leaves out (both stamps
\* are NOW() of the inserting statement, last_error and executed_at are NULL)
column_defaults ==
    [ created_at |-> now, updated_at |-> now,
      last_error |-> NoError, executed_at |-> NoTime ]

\* the status column bound from the wrong parameter of the INSERT
db_create_timer_misbound(id, execute_at, callback_type, callback_config, metadata) ==
    [ id |-> id, created_at |-> column_defaults.created_at,
      updated_at |-> column_defaults.updated_at,
      execute_at |-> execute_at, callback_type |-> callback_type,
      callback_config |-> callback_config, metadata |-> metadata,
      status |-> callback_type,
      last_error |-> column_defaults.last_error,
      executed_at |-> column_defaults.executed_at ]

\* db.rs db_create_timer: INSERT of id, execute_at, callback_type,
\* callback_config, metadata and status 'pending'; the other columns take
\* their defaults
db_create_timer(id, execute_at, callback_type, callback_config, metadata) ==
    [ id |-> id, created_at |-> column_defaults.created_at,
      updated_at |-> column_defaults.updated_at,
      execute_at |-> execute_at, callback_type |-> callback_type,
      callback_config |-> callback_config, metadata |-> metadata,
      status |-> Pending,
      last_error |-> column_defaults.last_error,
      executed_at |-> column_defaults.executed_at ]

\* the window with its lower bound included
InWindowLowerInclusive(row) ==
    /\ row.status = Pending
    /\ row.execute_at >= now - LOOKBACK
    /\ row.execute_at <= now + LOOKAHEAD

\* db.rs db_load_near_term_timers: the WHERE clause
InWindow(row) ==
    /\ row.status = Pending
    /\ row.execute_at > now - LOOKBACK
    /\ row.execute_at <= now + LOOKAHEAD

\* db.rs db_load_near_term_timers: rows of the window
db_load_near_term_timers == { id \in DOMAIN store : InWindow(store[id]) }

\* db.rs db_mark_executing: UPDATE timers SET status, updated_at WHERE id = $1
db_mark_executing(row) ==
    [row EXCEPT !.status = Executing, !.updated_at = now]

\* db.rs db_mark_completed
db_mark_completed(row) ==
    [row EXCEPT !.status = Completed, !.executed_at = now, !.updated_at = now]

\* db.rs db_mark_failed
db_mark_failed(row, error_message) ==
    [row EXCEPT !.status = Failed, !.last_error = error_message,
                !.executed_at = now, !.updated_at = now]

\* db.rs db_cancel_timer
db_cancel_timer(row) ==
    [row EXCEPT !.status = Canceled, !.updated_at = now]

\* the update that also puts the row back to pending
db_update_timer_resets(row, hasAt, execute_at, callback_type, hasCb, callback_config, hasMeta, metadata) ==
    [row EXCEPT !.updated_at = now,
                !.status = Pending,
                !.execute_at = IF hasAt THEN execute_at ELSE @,
                !.callback_type = IF callback_type.some THEN callback_type.val ELSE @,
                !.callback_config = IF hasCb THEN callback_config ELSE @,
                !.metadata = IF hasMeta THEN metadata ELSE @]

\* every column of the request written, supplied or not
db_update_timer_overwrites(row, hasAt, execute_at, callback_type, hasCb, callback_config, hasMeta, metadata) ==
    [row EXCEPT !.updated_at = now,
                !.execute_at = execute_at,
                !.callback_type = CallbackTypeOf(callback_config),
                !.callback_config = callback_config,
                !.metadata = metadata]

\* db.rs db_update_timer: SET updated_at = NOW() and each supplied column
\* (callback_type is an Option<CallbackType>, the other options are given by
\* their flags)
db_update_timer(row, hasAt, execute_at, callback_type, hasCb, callback_config, hasMeta, metadata) ==
    [row EXCEPT !.updated_at = now,
                !.execute_at = IF hasAt THEN execute_at ELSE @,
                !.callback_type = IF callback_type.some THEN callback_type.val ELSE @,
                !.callback_config = IF hasCb THEN callback_config ELSE @,
                !.metadata = IF hasMeta THEN metadata ELSE @]

\* models.rs Timer as held by the cache and by a callback task: the fields the
\* Execution Task and execute_callback read
Snapshot(row) ==
    [ id |-> row.id, execute_at |-> row.execute_at,
      callback_config |-> row.callback_config ]

\* a store write applied to the row with this id, when the row exists
WriteRow(id, newRow) ==
    store' = IF id \in DOMAIN store THEN [store EXCEPT ![id] = newRow] ELSE store

(* ------------------------------- Init ---------------------------------- *)
InitCommon ==
    /\ now = 0
    /\ store = << >>
    /\ cache = [e \in Engines |-> << >>]
    /\ nextLoad = [e \in Engines |-> 0]
    /\ loaderPc = [e \in Engines |-> "idle"]
    /\ loaderBuf = [e \in Engines |-> << >>]
    /\ nextTick = [e \in Engines |-> 0]
    /\ tickerPc = [e \in Engines |-> "idle"]
    /\ dueTimers = [e \in Engines |-> << >>]
    /\ tasks = EmptyBag
    /\ inflight = {}
    /\ requests = 0
    /\ emitted = << >>
    /\ lastSent = NoSent
    /\ resched = << >>
    /\ loadMissed = [e \in Engines |-> FALSE]
    /\ response = NoResponse
    /\ outcome = NoOutcome

\* main.rs: one engine process against the store
Init == InitCommon /\ running = {1}

(* ---------------------------- Admission -------------------------------- *)
\* the comparison with the boundary instant left out
TooEarlyExclusive(execute_at, clock) == execute_at < clock + MIN_LEAD

\* api_create_timer.rs line 29, api_update_timer.rs line 68:
\* execute_at <= now + Duration::seconds(5)
TooEarly(execute_at, clock) == execute_at <= clock + MIN_LEAD

\* the response of a handler to request number n: HTTP status and the code of
\* the ApiResponse body
Respond(n, op, id, hasAt, lead, execute_at, status, code) ==
    response' = [ n |-> n, op |-> op, id |-> id, hasAt |-> hasAt, lead |-> lead,
                  execute_at |-> execute_at, status |-> status, code |-> code ]

\* api_create_timer.rs create_timer: validation, then db_create_timer
create_timer_with(limit, leads, configs) ==
    \E lead \in leads, cfg \in configs :
        LET execute_at == now + lead
            id == Cardinality(DOMAIN store) + 1
        IN  /\ requests' = requests + 1
            /\ IF TooEarly(execute_at, now)
               THEN /\ Respond(requests + 1, "create", 0, TRUE, lead, execute_at, 400, 2)
                    /\ UNCHANGED << store, emitted, resched >>
               ELSE /\ id <= limit
                    /\ store' = [i \in DOMAIN store \cup {id} |->
                                    IF i = id
                                    THEN db_create_timer(id, execute_at,
                                                         CallbackTypeOf(cfg), cfg,
                                                         CreateMetadata)
                                    ELSE store[i]]
                    /\ emitted' = [i \in DOMAIN store \cup {id} |->
                                      IF i = id THEN 0 ELSE emitted[i]]
                    /\ resched' = [i \in DOMAIN store \cup {id} |->
                                      IF i = id THEN NoResched ELSE resched[i]]
                    /\ Respond(requests + 1, "create", id, TRUE, lead, execute_at, 201, 0)
            /\ UNCHANGED << outcome, now, running, engineVars, tasks, inflight,
                            lastSent >>

\* create_timer for requests that carry the HTTP callback
create_timer(limit, leads) == create_timer_with(limit, leads, CreateConfigs)

\* POST /timers in the asynchronous specification
CreateTimer == requests < MaxRequests /\ create_timer(MaxTimers, Leads)

\* the discriminator taken as http whatever the variant
update_callback_type_http(body) ==
    IF body.hasCb THEN SomeStr("http") ELSE NoneStr

\* api_update_timer.rs update_timer, lines 79-117: Some(CallbackType) of the
\* variant of the supplied callback, None without a callback
update_callback_type(body) ==
    IF body.hasCb THEN SomeStr(CallbackTypeOf(body.callback_config)) ELSE NoneStr

\* api_update_timer.rs update_timer, lines 31-120: db_get_timer, the status
\* check, the execute_at validation and the callback validation
update_read(bodies) ==
    \E id \in DOMAIN store, body \in bodies :
        LET execute_at == IF body.hasAt THEN now + body.lead ELSE NoTime
        IN  /\ Cardinality(inflight) < MaxInflight
            /\ requests' = requests + 1
            /\ IF store[id].status \in {Completed, Failed, Canceled}
               THEN /\ Respond(requests + 1, "update", id, body.hasAt, body.lead, execute_at, 400, 2)
                    /\ UNCHANGED inflight
               ELSE IF body.hasAt /\ TooEarly(execute_at, now)
               THEN /\ Respond(requests + 1, "update", id, body.hasAt, body.lead, execute_at, 400, 2)
                    /\ UNCHANGED inflight
               ELSE /\ inflight' = inflight \cup
                          { [ n |-> requests + 1, op |-> "update", id |-> id,
                              hasAt |-> body.hasAt,
                              lead |-> body.lead, execute_at |-> execute_at,
                              callback_type |-> update_callback_type(body),
                              hasCb |-> body.hasCb,
                              callback_config |-> body.callback_config,
                              hasMeta |-> body.hasMeta,
                              metadata |-> body.metadata ] }
                    /\ UNCHANGED response
            /\ UNCHANGED << outcome, now, store, running, engineVars, tasks,
                            emitted, lastSent, resched >>

\* PUT /timers/{id} in the asynchronous specification
UpdateRead == requests < MaxRequests /\ update_read(UpdateRequests)

\* api_update_timer.rs update_timer, lines 122-136: db_update_timer, 200
UpdateWrite ==
    \E req \in inflight :
        LET old == store[req.id]
            new == db_update_timer(old, req.hasAt, req.execute_at,
                                   req.callback_type,
                                   req.hasCb, req.callback_config,
                                   req.hasMeta, req.metadata)
        IN  /\ req.op = "update"
            /\ WriteRow(req.id, new)
            /\ inflight' = inflight \ {req}
            /\ resched' = IF old.status = Pending
                          THEN [resched EXCEPT ![req.id] =
                                   [ at |-> now,
                                     oldAt |-> old.execute_at,
                                     newAt |-> new.execute_at,
                                     oldUrl |-> TargetOf(old.callback_config),
                                     newUrl |-> TargetOf(new.callback_config) ]]
                          ELSE resched
            /\ Respond(req.n, "update", req.id, req.hasAt, req.lead, req.execute_at, 200, 0)
            /\ UNCHANGED << outcome, now, running, engineVars, tasks, requests,
                            emitted, lastSent >>

\* api_cancel_timer.rs cancel_timer, lines 28-61: db_get_timer and the status check
CancelRead ==
    \E id \in DOMAIN store :
        /\ Cardinality(inflight) < MaxInflight
        /\ requests < MaxRequests
        /\ requests' = requests + 1
        /\ IF store[id].status \in {Completed, Failed}
           THEN /\ Respond(requests + 1, "cancel", id, FALSE, 0, NoTime, 400, 2)
                /\ UNCHANGED inflight
           ELSE /\ inflight' = inflight \cup
                               { [n |-> requests + 1, op |-> "cancel", id |-> id] }
                /\ UNCHANGED response
        /\ UNCHANGED << outcome, now, store, running, engineVars, tasks, emitted,
                        lastSent, resched >>

\* the cancel that also evicts the timer from the cache
CancelWriteEvicts ==
    \E req \in inflight :
        /\ req.op = "cancel"
        /\ WriteRow(req.id, db_cancel_timer(store[req.id]))
        /\ inflight' = inflight \ {req}
        /\ Respond(req.n, "cancel", req.id, FALSE, 0, NoTime, 200, 0)
        /\ cache' = [e \in Engines |-> Restrict(cache[e], DOMAIN cache[e] \ {req.id})]
        /\ UNCHANGED << outcome, now, running, nextLoad, loaderPc, loaderBuf,
                        nextTick, tickerPc, dueTimers, loadMissed, tasks, requests,
                        emitted, lastSent, resched >>

\* api_cancel_timer.rs cancel_timer, lines 63-71: db_cancel_timer, 200
CancelWrite ==
    \E req \in inflight :
        /\ req.op = "cancel"
        /\ WriteRow(req.id, db_cancel_timer(store[req.id]))
        /\ inflight' = inflight \ {req}
        /\ Respond(req.n, "cancel", req.id, FALSE, 0, NoTime, 200, 0)
        /\ UNCHANGED << outcome, now, running, engineVars, tasks, requests,
                        emitted, lastSent, resched >>

\* api_get_timer.rs get_timer: db_get_timer, then 200 with the row or 404 with
\* code 3
get_timer(ids) ==
    \E id \in ids :
        /\ requests' = requests + 1
        /\ IF id \in DOMAIN store
           THEN response' = [ n |-> requests + 1, op |-> "get", id |-> id,
                              hasAt |-> FALSE, lead |-> 0, execute_at |-> NoTime,
                              status |-> 200, code |-> 0, timer |-> store[id] ]
           ELSE Respond(requests + 1, "get", id, FALSE, 0, NoTime, 404, 3)
        /\ UNCHANGED << outcome, now, store, running, engineVars, tasks,
                        inflight, emitted, lastSent, resched >>

\* Option::unwrap_or, Ord::min, Ord::max
unwrap_or(opt, default) == IF opt.some THEN opt.val ELSE default
min(a, b) == IF a <= b THEN a ELSE b
max(a, b) == IF a >= b THEN a ELSE b

\* the limit without its upper clamp
effective_limit_uncapped(limit) == max(unwrap_or(limit, 50), 1)

\* api_list_timers.rs line 39: params.limit.unwrap_or(50).min(200).max(1)
effective_limit(limit) == max(min(unwrap_or(limit, 50), 200), 1)

\* api_list_timers.rs line 40: params.offset.unwrap_or(0).max(0)
effective_offset(offset) == max(unwrap_or(offset, 0), 0)

\* the column ORDER BY names
SortKey(row, sort_field) ==
    IF sort_field = "created_at" THEN row.created_at ELSE row.execute_at

\* db.rs db_list_timers: the rows WHERE status = filter, in ORDER BY
\* sort_field sort_order (rows with equal keys in any order)
ListOrders(status_filter, sort_field, sort_order) ==
    LET ids == { id \in DOMAIN store :
                   status_filter.some => store[id].status = status_filter.val }
    IN  { p \in Perms(ids) :
            \A i, j \in 1 .. Len(p) :
               i < j =>
                  IF sort_order = "asc"
                  THEN SortKey(store[p[i]], sort_field) <= SortKey(store[p[j]], sort_field)
                  ELSE SortKey(store[p[i]], sort_field) >= SortKey(store[p[j]], sort_field) }

\* db.rs db_list_timers: LIMIT $1 OFFSET $2
Page(rows, limit, offset) == SubSeq(rows, offset + 1, min(Len(rows), offset + limit))

\* the response of list_timers: HTTP status, code of the ApiResponse body and
\* the ListTimersResponse
RespondList(n, query, status, code, timers, total, limit, offset) ==
    response' = [ n |-> n, op |-> "list", id |-> 0, hasAt |-> FALSE, lead |-> 0,
                  execute_at |-> NoTime, status |-> status, code |-> code,
                  query |-> query, timers |-> timers, total |-> total,
                  limit |-> limit, offset |-> offset ]

\* api_list_timers.rs list_timers: defaults and clamps, validation of sort,
\* order and status, then db_list_timers and the ListTimersResponse
list_timers(queries) ==
    \E params \in queries :
        LET limit == effective_limit(params.limit)
            offset == effective_offset(params.offset)
            sort_field == unwrap_or(params.sort, "created_at")
            sort_order == unwrap_or(params.order, "desc")
        IN  /\ requests' = requests + 1
            /\ IF sort_field \notin {"created_at", "execute_at"}
               THEN RespondList(requests + 1, params, 400, 2, << >>, 0, 0, 0)
               ELSE IF sort_order \notin {"asc", "desc"}
               THEN RespondList(requests + 1, params, 400, 2, << >>, 0, 0, 0)
               ELSE IF params.status.some /\ params.status.val \notin TimerStatus
               THEN RespondList(requests + 1, params, 400, 2, << >>, 0, 0, 0)
               ELSE \E rows \in ListOrders(params.status, sort_field, sort_order) :
                       RespondList(requests + 1, params, 200, 0,
                                   Page(rows, limit, offset), Len(rows),
                                   limit, offset)
            /\ UNCHANGED << outcome, now, store, running, engineVars, tasks,
                            inflight, emitted, lastSent, resched >>

(* --------------------------- Memory Loader ----------------------------- *)
\* the query result: the window's rows in ascending execute_at order
SortedWindows ==
    { p \in Perms(db_load_near_term_timers) :
        \A i, j \in 1 .. Len(p) :
            i < j => store[p[i]].execute_at <= store[p[j]].execute_at }

\* scheduler.rs lines 26-30: interval.tick(), db_load_near_term_timers returns Ok
LoaderQueryOk(e) ==
    /\ e \in running
    /\ loaderPc[e] = "idle"
    /\ now >= nextLoad[e]
    /\ nextLoad' = [nextLoad EXCEPT ![e] = @ + LOAD_INTERVAL]
    /\ \E p \in SortedWindows :
           loaderBuf' = [loaderBuf EXCEPT ![e] =
                            [i \in 1 .. Len(p) |-> Snapshot(store[p[i]])]]
    /\ loaderPc' = [loaderPc EXCEPT ![e] = "swap"]
    /\ loadMissed' = [loadMissed EXCEPT ![e] = FALSE]
    /\ UNCHANGED << response, outcome, now, store, running, cache, nextTick, tickerPc, dueTimers,
                    tasks, inflight, requests, emitted, lastSent, resched >>

\* the cache emptied when the query fails
LoaderQueryErrClears(e) ==
    /\ e \in running
    /\ loaderPc[e] = "idle"
    /\ now >= nextLoad[e]
    /\ nextLoad' = [nextLoad EXCEPT ![e] = @ + LOAD_INTERVAL]
    /\ loadMissed' = [loadMissed EXCEPT ![e] = TRUE]
    /\ cache' = [cache EXCEPT ![e] = << >>]
    /\ UNCHANGED << response, outcome, now, store, running, loaderPc, loaderBuf, nextTick,
                    tickerPc, dueTimers, tasks, inflight, requests, emitted, lastSent,
                    resched >>

\* scheduler.rs lines 26-28, 43-45: the query returns Err, the tick is skipped
LoaderQueryErr(e) ==
    /\ e \in running
    /\ loaderPc[e] = "idle"
    /\ now >= nextLoad[e]
    /\ nextLoad' = [nextLoad EXCEPT ![e] = @ + LOAD_INTERVAL]
    /\ loadMissed' = [loadMissed EXCEPT ![e] = TRUE]
    /\ UNCHANGED << response, outcome, now, store, running, cache, loaderPc, loaderBuf, nextTick,
                    tickerPc, dueTimers, tasks, inflight, requests, emitted, lastSent,
                    resched >>

\* scheduler.rs lines 32-38: the mapping built by clear() and insert()
CacheFrom(buf) ==
    [ id \in { buf[i].id : i \in 1 .. Len(buf) } |->
        (CHOOSE t \in { buf[i] : i \in 1 .. Len(buf) } : t.id = id) ]

\* scheduler.rs lines 32-41: write lock, clear, insert every row, unlock
LoaderSwap(e) ==
    /\ e \in running
    /\ loaderPc[e] = "swap"
    /\ cache' = [cache EXCEPT ![e] = CacheFrom(loaderBuf[e])]
    /\ loaderBuf' = [loaderBuf EXCEPT ![e] = << >>]
    /\ loaderPc' = [loaderPc EXCEPT ![e] = "idle"]
    /\ UNCHANGED << response, outcome, now, store, running, nextLoad, nextTick, tickerPc,
                    dueTimers, tasks, inflight, requests, emitted, lastSent, resched,
                    loadMissed >>

\* scheduler.rs lines 33-41: the Memory Loader holds the cache's write lock
WriteLocked(e) == loaderPc[e] = "insert"

\* scheduler.rs lines 33-34: cache_loader.write().await, cache_guard.clear()
LoaderClear(e) ==
    /\ e \in running
    /\ loaderPc[e] = "swap"
    /\ cache' = [cache EXCEPT ![e] = << >>]
    /\ loaderPc' = [loaderPc EXCEPT ![e] = "insert"]
    /\ UNCHANGED << response, outcome, now, store, running, nextLoad, loaderBuf,
                    nextTick, tickerPc, dueTimers, tasks, inflight, requests,
                    emitted, lastSent, resched, loadMissed >>

\* positions of the query result whose row is not yet inserted
NotInserted(e) ==
    { i \in 1 .. Len(loaderBuf[e]) : loaderBuf[e][i].id \notin DOMAIN cache[e] }

\* scheduler.rs lines 36-38: cache_guard.insert(timer.id, timer), one row
LoaderInsert(e) ==
    /\ e \in running
    /\ WriteLocked(e)
    /\ NotInserted(e) # {}
    /\ LET i == CHOOSE k \in NotInserted(e) : \A j \in NotInserted(e) : k <= j
           timer == loaderBuf[e][i]
       IN  cache' = [cache EXCEPT ![e] =
                        [id \in DOMAIN @ \cup {timer.id} |->
                            IF id = timer.id THEN timer ELSE @[id]]]
    /\ UNCHANGED << response, outcome, now, store, running, nextLoad, loaderPc,
                    loaderBuf, nextTick, tickerPc, dueTimers, tasks, inflight,
                    requests, emitted, lastSent, resched, loadMissed >>

\* scheduler.rs lines 40-42: the guard drops after the last insert
LoaderUnlock(e) ==
    /\ e \in running
    /\ WriteLocked(e)
    /\ NotInserted(e) = {}
    /\ loaderBuf' = [loaderBuf EXCEPT ![e] = << >>]
    /\ loaderPc' = [loaderPc EXCEPT ![e] = "idle"]
    /\ UNCHANGED << response, outcome, now, store, running, cache, nextLoad,
                    nextTick, tickerPc, dueTimers, tasks, inflight, requests,
                    emitted, lastSent, resched, loadMissed >>

(* -------------------------- Execution Task ----------------------------- *)
\* every cached timer of the coming minute taken as due
IsDueAhead(t) == t.execute_at <= now + LOOKAHEAD

\* scheduler.rs line 64: .filter(|t| t.execute_at <= now)
IsDue(t) == t.execute_at <= now

\* scheduler.rs lines 60-67: ids of the cached timers that are due
DueIds(e) == { id \in DOMAIN cache[e] : IsDue(cache[e][id]) }

\* what the Execution Task does after one due timer has been handled
AfterTimer(e) ==
    /\ dueTimers' = [dueTimers EXCEPT ![e] = Tail(@)]
    /\ tickerPc' = [tickerPc EXCEPT ![e] =
                       IF Len(dueTimers[e]) > 1 THEN "claim" ELSE "idle"]

\* the due timers collected without waiting for the cache's lock
TickBeginUnlocked(e) ==
    /\ e \in running
    /\ tickerPc[e] = "idle"
    /\ now >= nextTick[e]
    /\ nextTick' = [nextTick EXCEPT ![e] = @ + TICK_INTERVAL]
    /\ \E p \in Perms(DueIds(e)) :
           /\ dueTimers' = [dueTimers EXCEPT ![e] =
                               [i \in 1 .. Len(p) |-> cache[e][p[i]]]]
           /\ tickerPc' = [tickerPc EXCEPT ![e] =
                               IF Len(p) > 0 THEN "claim" ELSE "idle"]
    /\ UNCHANGED << response, outcome, now, store, running, cache, nextLoad, loaderPc, loaderBuf,
                    tasks, inflight, requests, emitted, lastSent, resched, loadMissed >>

\* scheduler.rs lines 55-73: interval.tick(), read lock, collect the due timers
\* (HashMap::values() yields them in an arbitrary order)
TickBegin(e) ==
    /\ e \in running
    /\ tickerPc[e] = "idle"
    /\ now >= nextTick[e]
    /\ ~ WriteLocked(e)
    /\ nextTick' = [nextTick EXCEPT ![e] = @ + TICK_INTERVAL]
    /\ \E p \in Perms(DueIds(e)) :
           /\ dueTimers' = [dueTimers EXCEPT ![e] =
                               [i \in 1 .. Len(p) |-> cache[e][p[i]]]]
           /\ tickerPc' = [tickerPc EXCEPT ![e] =
                               IF Len(p) > 0 THEN "claim" ELSE "idle"]
    /\ UNCHANGED << response, outcome, now, store, running, cache, nextLoad, loaderPc, loaderBuf,
                    tasks, inflight, requests, emitted, lastSent, resched, loadMissed >>

\* scheduler.rs lines 75-81: db_mark_executing returns Ok
TickClaimOk(e) ==
    /\ e \in running
    /\ tickerPc[e] = "claim"
    /\ LET timer == Head(dueTimers[e])
       IN  WriteRow(timer.id, db_mark_executing(store[timer.id]))
    /\ tickerPc' = [tickerPc EXCEPT ![e] = "remove"]
    /\ UNCHANGED << response, outcome, now, running, cache, nextLoad, loaderPc, loaderBuf,
                    nextTick, dueTimers, tasks, inflight, requests, emitted, lastSent,
                    resched, loadMissed >>

\* the task record of tokio::spawn(execute_callback(pool, timer))
NewTask(e, timer) == [eng |-> e, timer |-> timer, pc |-> "spawned"]

\* the tick given up at the first failed claim
TickClaimErrAborts(e) ==
    /\ e \in running
    /\ tickerPc[e] = "claim"
    /\ dueTimers' = [dueTimers EXCEPT ![e] = << >>]
    /\ tickerPc' = [tickerPc EXCEPT ![e] = "idle"]
    /\ UNCHANGED << response, outcome, now, store, running, cache, nextLoad, loaderPc, loaderBuf,
                    nextTick, tasks, inflight, requests, emitted, lastSent, resched,
                    loadMissed >>

\* the callback task spawned although the claim write failed
TickClaimErrDispatches(e) ==
    /\ e \in running
    /\ tickerPc[e] = "claim"
    /\ tasks' = tasks (+) SetToBag({NewTask(e, Head(dueTimers[e]))})
    /\ AfterTimer(e)
    /\ UNCHANGED << response, outcome, now, store, running, cache, nextLoad, loaderPc, loaderBuf,
                    nextTick, inflight, requests, emitted, lastSent, resched,
                    loadMissed >>

\* scheduler.rs lines 80, 98-104: db_mark_executing returns Err, the timer is skipped
TickClaimErr(e) ==
    /\ e \in running
    /\ tickerPc[e] = "claim"
    /\ AfterTimer(e)
    /\ UNCHANGED << response, outcome, now, store, running, cache, nextLoad, loaderPc, loaderBuf,
                    nextTick, tasks, inflight, requests, emitted, lastSent, resched,
                    loadMissed >>

\* the callback task spawned with the claimed timer left in the cache
TickSpawnKeeps(e) ==
    /\ e \in running
    /\ tickerPc[e] = "remove"
    /\ ~ WriteLocked(e)
    /\ tasks' = tasks (+) SetToBag({NewTask(e, Head(dueTimers[e]))})
    /\ AfterTimer(e)
    /\ UNCHANGED << response, outcome, now, store, running, cache, nextLoad, loaderPc, loaderBuf,
                    nextTick, inflight, requests, emitted, lastSent, resched, loadMissed >>

\* scheduler.rs lines 82-96: write lock, remove the id from the cache, spawn the
\* callback task
TickRemoveSpawn(e) ==
    /\ e \in running
    /\ tickerPc[e] = "remove"
    /\ ~ WriteLocked(e)
    /\ LET timer == Head(dueTimers[e])
       IN  /\ cache' = [cache EXCEPT ![e] =
                           Restrict(@, DOMAIN @ \ {timer.id})]
           /\ tasks' = tasks (+) SetToBag({NewTask(e, timer)})
    /\ AfterTimer(e)
    /\ UNCHANGED << response, outcome, now, store, running, nextLoad, loaderPc, loaderBuf,
                    nextTick, inflight, requests, emitted, lastSent, resched, loadMissed >>

(* ----------------------------- Dispatcher ------------------------------ *)
\* http StatusCode::canonical_reason, with callback.rs line 55 unwrap_or("Unknown")
canonical_reason(code) ==
    IF code = 300 THEN "Multiple Choices"
    ELSE IF code = 404 THEN "Not Found"
    ELSE IF code = 500 THEN "Internal Server Error"
    ELSE "Unknown"

\* callback.rs line 55: format!("HTTP {}: {}", status.as_u16(), canonical_reason)
HttpErrorMessage(code) == << "HTTP ", ToString(code), ": ", canonical_reason(code) >>

\* callback.rs line 68
TimeoutMessage == << "Connection timeout after 30s" >>

\* callback.rs line 70: format!("Connection error: {}", err)
ConnectMessage == << "Connection error: ", "connection refused" >>

\* the success range with its upper end included
is_success_inclusive(code) == 200 <= code /\ code <= 300

\* reqwest StatusCode::is_success
is_success(code) == 200 <= code /\ code < 300

\* the task t leaves the set of live tasks
EndTask(t) == tasks' = tasks (-) SetToBag({t})

\* callback.rs lines 10-41: build the POST and send it
DispatchSend ==
    \E t \in BagToSet(tasks) :
        /\ t.pc = "spawned"
        /\ tasks' = (tasks (-) SetToBag({t})) (+) SetToBag({[t EXCEPT !.pc = "sent"]})
        /\ emitted' = [emitted EXCEPT ![t.timer.id] = @ + 1]
        /\ lastSent' = [ id |-> t.timer.id, url |-> t.timer.callback_config.url,
                         at |-> now ]
        /\ UNCHANGED << response, outcome, now, store, running, engineVars, inflight, requests, resched >>

\* the result a callback task ends with
Outcome(id, kind, code, recorded) ==
    outcome' = [id |-> id, kind |-> kind, code |-> code, recorded |-> recorded]

\* a response outside the success range ends the task without a store write
dispatch_response_drops_failure(statuses) ==
    \E t \in BagToSet(tasks), code \in statuses :
        /\ t.pc = "sent"
        /\ IF is_success(code)
           THEN WriteRow(t.timer.id, db_mark_completed(store[t.timer.id]))
           ELSE UNCHANGED store
        /\ EndTask(t)
        /\ Outcome(t.timer.id, "response", code, TRUE)
        /\ UNCHANGED << response, now, running, engineVars, inflight, requests,
                        emitted, lastSent, resched >>

\* callback.rs lines 42-63: a response arrives and its outcome is recorded
dispatch_response(statuses) ==
    \E t \in BagToSet(tasks), code \in statuses :
        /\ t.pc = "sent"
        /\ WriteRow(t.timer.id,
                    IF is_success(code)
                    THEN db_mark_completed(store[t.timer.id])
                    ELSE db_mark_failed(store[t.timer.id], HttpErrorMessage(code)))
        /\ EndTask(t)
        /\ Outcome(t.timer.id, "response", code, TRUE)
        /\ UNCHANGED << response, now, running, engineVars, inflight, requests,
                        emitted, lastSent, resched >>

DispatchResponse == dispatch_response(HttpStatuses)

\* callback.rs lines 65-68, 77-83: the request times out, the failure is recorded
DispatchTimeout ==
    \E t \in BagToSet(tasks) :
        /\ t.pc = "sent"
        /\ WriteRow(t.timer.id, db_mark_failed(store[t.timer.id], TimeoutMessage))
        /\ EndTask(t)
        /\ Outcome(t.timer.id, "timeout", 0, TRUE)
        /\ UNCHANGED << response, now, running, engineVars, inflight, requests,
                        emitted, lastSent, resched >>

\* callback.rs lines 65-70, 77-83: the connection fails, the failure is recorded
DispatchConnectErr ==
    \E t \in BagToSet(tasks) :
        /\ t.pc = "sent"
        /\ WriteRow(t.timer.id, db_mark_failed(store[t.timer.id], ConnectMessage))
        /\ EndTask(t)
        /\ Outcome(t.timer.id, "connect", 0, TRUE)
        /\ UNCHANGED << response, now, running, engineVars, inflight, requests,
                        emitted, lastSent, resched >>

\* the task goes back to sending its request after the failed store write
DispatchRecordErrRetry ==
    \E t \in BagToSet(tasks) :
        /\ t.pc = "sent"
        /\ tasks' = (tasks (-) SetToBag({t})) (+) SetToBag({[t EXCEPT !.pc = "spawned"]})
        /\ Outcome(t.timer.id, "store_error", 0, FALSE)
        /\ UNCHANGED << response, now, store, running, engineVars, inflight,
                        requests, emitted, lastSent, resched >>

\* callback.rs lines 52, 62, 82 and scheduler.rs lines 89-95: the store write that
\* records the outcome returns Err; the error is logged and the task ends
DispatchRecordErr ==
    \E t \in BagToSet(tasks) :
        /\ t.pc = "sent"
        /\ EndTask(t)
        /\ Outcome(t.timer.id, "store_error", 0, FALSE)
        /\ UNCHANGED << response, now, store, running, engineVars, inflight,
                        requests, emitted, lastSent, resched >>

(* ------------------------------- Clock --------------------------------- *)
\* scheduler.rs lines 23-26, 52-55: the runtime wakes each periodic task at its
\* deadline, and an iteration of the Execution Task ends within the second
EngineQuiet(e) ==
    /\ tickerPc[e] = "idle"
    /\ nextTick[e] > now
    /\ nextLoad[e] > now

\* one second passes; the Loader's refresh, callback tasks and admission
\* requests may be under way meanwhile
AdvanceTime ==
    /\ now < MaxTime
    /\ \A e \in running : EngineQuiet(e)
    /\ now' = now + 1
    /\ UNCHANGED << response, outcome, store, running, engineVars, tasks, inflight, requests, emitted,
                    lastSent, resched >>

(* --------------------------- specifications ---------------------------- *)
(* Asynchronous: one engine; admission requests, store failures and slow      *)
(* refreshes, callbacks and requests in every interleaving.                   *)
Next ==
    \/ CreateTimer
    \/ UpdateRead
    \/ UpdateWrite
    \/ CancelRead
    \/ CancelWrite
    \/ \E e \in Engines : LoaderQueryOk(e)
    \/ \E e \in Engines : LoaderQueryErr(e)
    \/ \E e \in Engines : LoaderSwap(e)
    \/ \E e \in Engines : TickBegin(e)
    \/ \E e \in Engines : TickClaimOk(e)
    \/ \E e \in Engines : TickClaimErr(e)
    \/ \E e \in Engines : TickRemoveSpawn(e)
    \/ DispatchSend
    \/ DispatchResponse
    \/ DispatchTimeout
    \/ DispatchRecordErr
    \/ AdvanceTime

Spec == Init /\ [][Next]_vars

(* Steady state: the engine runs continuously, every store call succeeds      *)
(* within the second it is issued and the webhook answers within the second;  *)
(* no timer is updated or canceled.                                           *)
CreateSteady == create_timer(MaxSteadyTimers, SteadyLeads)

\* every periodic task has run for this second, the refresh is complete and
\* no callback is outstanding
SteadyQuiet ==
    /\ \A e \in running : EngineQuiet(e) /\ loaderPc[e] = "idle"
    /\ tasks = EmptyBag

AdvanceSteady ==
    /\ now < MaxSteadyTime
    /\ SteadyQuiet
    /\ now' = now + 1
    /\ UNCHANGED << response, outcome, store, running, engineVars, tasks, inflight, requests,
                    emitted, lastSent, resched >>

NextSteady ==
    \/ CreateSteady
    \/ \E e \in Engines : LoaderQueryOk(e)
    \/ \E e \in Engines : LoaderSwap(e)
    \/ \E e \in Engines : TickBegin(e)
    \/ \E e \in Engines : TickClaimOk(e)
    \/ \E e \in Engines : TickRemoveSpawn(e)
    \/ DispatchSend
    \/ DispatchResponse
    \/ AdvanceSteady

SpecSteady == Init /\ [][NextSteady]_vars

(* Missed refreshes: as the steady state, but a Loader refresh may fail when  *)
(* the one before it did not.                                                 *)
CreateMissed == create_timer(MaxMissedTimers, MissedLeads)

LoaderMiss(e) == ~ loadMissed[e] /\ LoaderQueryErr(e)

AdvanceMissed ==
    /\ now < MaxMissedTime
    /\ SteadyQuiet
    /\ now' = now + 1
    /\ UNCHANGED << response, outcome, store, running, engineVars, tasks, inflight, requests,
                    emitted, lastSent, resched >>

NextMissed ==
    \/ CreateMissed
    \/ \E e \in Engines : LoaderQueryOk(e)
    \/ \E e \in Engines : LoaderMiss(e)
    \/ \E e \in Engines : LoaderSwap(e)
    \/ \E e \in Engines : TickBegin(e)
    \/ \E e \in Engines : TickClaimOk(e)
    \/ \E e \in Engines : TickRemoveSpawn(e)
    \/ DispatchSend
    \/ DispatchResponse
    \/ AdvanceMissed

SpecMissed == Init /\ [][NextMissed]_vars

(* Claim race: two engine processes started against the same store.           *)
InitRace == InitCommon /\ running = {1, 2}

CreateRace == create_timer(MaxRaceTimers, Leads)

NextRace ==
    \/ CreateRace
    \/ \E e \in Engines : LoaderQueryOk(e)
    \/ \E e \in Engines : LoaderSwap(e)
    \/ \E e \in Engines : TickBegin(e)
    \/ \E e \in Engines : TickClaimOk(e)
    \/ \E e \in Engines : TickRemoveSpawn(e)
    \/ DispatchSend
    \/ DispatchResponse
    \/ AdvanceTime

SpecRace == InitRace /\ [][NextRace]_vars

(* Second refresh: one engine, the clock runs past the Loader's second        *)
(* refresh; timers are created and never updated or canceled.                 *)
CreateRefresh == create_timer(MaxRefreshTimers, RefreshLeads)

AdvanceRefresh ==
    /\ now < MaxRefreshTime
    /\ \A e \in running : EngineQuiet(e)
    /\ now' = now + 1
    /\ UNCHANGED << response, outcome, store, running, engineVars, tasks, inflight, requests,
                    emitted, lastSent, resched >>

NextRefresh ==
    \/ CreateRefresh
    \/ \E e \in Engines : LoaderQueryOk(e)
    \/ \E e \in Engines : LoaderSwap(e)
    \/ \E e \in Engines : TickBegin(e)
    \/ \E e \in Engines : TickClaimOk(e)
    \/ \E e \in Engines : TickRemoveSpawn(e)
    \/ DispatchSend
    \/ DispatchResponse
    \/ DispatchTimeout
    \/ AdvanceRefresh

SpecRefresh == Init /\ [][NextRefresh]_vars

(* Restart: the engine process may stop at any moment (its tasks and its      *)
(* cache are lost with it) and be started again.                              *)
\* the process of engine e ends: every task of the runtime is dropped and the
\* memory of the process is lost
EngineStop(e) ==
    /\ e \in running
    /\ running' = running \ {e}
    /\ tasks' = [t \in { x \in BagToSet(tasks) : x.eng # e } |-> tasks[t]]
    /\ cache' = [cache EXCEPT ![e] = << >>]
    /\ loaderPc' = [loaderPc EXCEPT ![e] = "idle"]
    /\ loaderBuf' = [loaderBuf EXCEPT ![e] = << >>]
    /\ tickerPc' = [tickerPc EXCEPT ![e] = "idle"]
    /\ dueTimers' = [dueTimers EXCEPT ![e] = << >>]
    /\ loadMissed' = [loadMissed EXCEPT ![e] = FALSE]
    /\ inflight' = {}
    /\ UNCHANGED << response, outcome, now, store, nextLoad, nextTick, requests, emitted, lastSent,
                    resched >>

\* main.rs lines 71-105: the cache is initialised empty and start_scheduler
\* spawns the two periodic tasks, whose first tick completes immediately; no
\* row of the store is written
EngineStart(e) ==
    /\ e = 1
    /\ e \notin running
    /\ running' = running \cup {e}
    /\ cache' = [cache EXCEPT ![e] = << >>]
    /\ nextLoad' = [nextLoad EXCEPT ![e] = now]
    /\ nextTick' = [nextTick EXCEPT ![e] = now]
    /\ UNCHANGED << response, outcome, now, store, loaderPc, loaderBuf, tickerPc, dueTimers, tasks,
                    inflight, requests, emitted, lastSent, resched, loadMissed >>

CreateRestart == create_timer(MaxRestartTimers, Leads)

AdvanceRestart ==
    /\ now < MaxRestartTime
    /\ \A e \in running : EngineQuiet(e)
    /\ now' = now + 1
    /\ UNCHANGED << response, outcome, store, running, engineVars, tasks, inflight, requests,
                    emitted, lastSent, resched >>

NextRestart ==
    \/ CreateRestart
    \/ \E e \in Engines : LoaderQueryOk(e)
    \/ \E e \in Engines : LoaderSwap(e)
    \/ \E e \in Engines : TickBegin(e)
    \/ \E e \in Engines : TickClaimOk(e)
    \/ \E e \in Engines : TickRemoveSpawn(e)
    \/ DispatchSend
    \/ DispatchResponse
    \/ \E e \in Engines : EngineStop(e)
    \/ \E e \in Engines : EngineStart(e)
    \/ AdvanceRestart

SpecRestart == Init /\ [][NextRestart]_vars

(* Claim order: as the steady state, with two timers that may be due in the   *)
(* same tick.                                                                 *)
CreateOrder == create_timer(MaxOrderTimers, OrderLeads)

AdvanceOrder ==
    /\ now < MaxOrderTime
    /\ SteadyQuiet
    /\ now' = now + 1
    /\ UNCHANGED << response, outcome, store, running, engineVars, tasks, inflight, requests,
                    emitted, lastSent, resched >>

NextOrder ==
    \/ CreateOrder
    \/ \E e \in Engines : LoaderQueryOk(e)
    \/ \E e \in Engines : LoaderSwap(e)
    \/ \E e \in Engines : TickBegin(e)
    \/ \E e \in Engines : TickClaimOk(e)
    \/ \E e \in Engines : TickRemoveSpawn(e)
    \/ DispatchSend
    \/ DispatchResponse
    \/ AdvanceOrder

SpecOrder == Init /\ [][NextOrder]_vars

(* Admission: requests with an execute_at before, at and after the earliest   *)
(* accepted instant; the engine as in the steady state, a handler may take    *)
(* time between its read and its write.                                       *)
CreateAdmission ==
    requests < MaxAdmissionRequests /\ create_timer(MaxAdmissionTimers, AdmissionLeads)

UpdateAdmission == requests < MaxAdmissionRequests /\ update_read(AdmissionUpdates)

AdvanceAdmission ==
    /\ now < MaxAdmissionTime
    /\ SteadyQuiet
    /\ now' = now + 1
    /\ UNCHANGED << response, outcome, store, running, engineVars, tasks, inflight,
                    requests, emitted, lastSent, resched >>

NextAdmission ==
    \/ CreateAdmission
    \/ UpdateAdmission
    \/ UpdateWrite
    \/ \E e \in Engines : LoaderQueryOk(e)
    \/ \E e \in Engines : LoaderSwap(e)
    \/ \E e \in Engines : TickBegin(e)
    \/ \E e \in Engines : TickClaimOk(e)
    \/ \E e \in Engines : TickRemoveSpawn(e)
    \/ DispatchSend
    \/ DispatchResponse
    \/ AdvanceAdmission

SpecAdmission == Init /\ [][NextAdmission]_vars

(* Dispatch: one engine, timers never updated or canceled; the webhook        *)
(* answers with a status on either side of the success range, times out or    *)
(* refuses the connection, and the store write of the outcome may fail.       *)
CreateDispatch == create_timer(MaxDispatchTimers, Leads)

DispatchBoundary == dispatch_response(BoundaryStatuses)

AdvanceDispatch ==
    /\ now < MaxDispatchTime
    /\ \A e \in running : EngineQuiet(e)
    /\ now' = now + 1
    /\ UNCHANGED << response, outcome, store, running, engineVars, tasks, inflight,
                    requests, emitted, lastSent, resched >>

NextDispatch ==
    \/ CreateDispatch
    \/ \E e \in Engines : LoaderQueryOk(e)
    \/ \E e \in Engines : LoaderSwap(e)
    \/ \E e \in Engines : TickBegin(e)
    \/ \E e \in Engines : TickClaimOk(e)
    \/ \E e \in Engines : TickRemoveSpawn(e)
    \/ DispatchSend
    \/ DispatchBoundary
    \/ DispatchTimeout
    \/ DispatchConnectErr
    \/ DispatchRecordErr
    \/ AdvanceDispatch

SpecDispatch == Init /\ [][NextDispatch]_vars

(* List: timers are created, claimed and dispatched as in the steady state    *)
(* while GET /timers is asked with query strings around the paging clamps.    *)
CreateList == requests < MaxListRequests /\ create_timer(MaxListTimers, Leads)

ListTimers == requests < MaxListRequests /\ list_timers(ListQueries)

AdvanceList ==
    /\ now < MaxListTime
    /\ SteadyQuiet
    /\ now' = now + 1
    /\ UNCHANGED << response, outcome, store, running, engineVars, tasks, inflight,
                    requests, emitted, lastSent, resched >>

NextList ==
    \/ CreateList
    \/ ListTimers
    \/ \E e \in Engines : LoaderQueryOk(e)
    \/ \E e \in Engines : LoaderSwap(e)
    \/ \E e \in Engines : TickBegin(e)
    \/ \E e \in Engines : TickClaimOk(e)
    \/ \E e \in Engines : TickRemoveSpawn(e)
    \/ DispatchSend
    \/ DispatchResponse
    \/ AdvanceList

SpecList == Init /\ [][NextList]_vars

(* Cache swap: as the steady state, with the Loader's refresh in its steps     *)
(* under the cache's write lock: clear, insert row by row, unlock.            *)
CreateSwap == create_timer(MaxSwapTimers, SwapLeads)

AdvanceSwap ==
    /\ now < MaxSwapTime
    /\ SteadyQuiet
    /\ now' = now + 1
    /\ UNCHANGED << response, outcome, store, running, engineVars, tasks, inflight,
                    requests, emitted, lastSent, resched >>

NextSwap ==
    \/ CreateSwap
    \/ \E e \in Engines : LoaderQueryOk(e)
    \/ \E e \in Engines : LoaderClear(e)
    \/ \E e \in Engines : LoaderInsert(e)
    \/ \E e \in Engines : LoaderUnlock(e)
    \/ \E e \in Engines : TickBegin(e)
    \/ \E e \in Engines : TickClaimOk(e)
    \/ \E e \in Engines : TickRemoveSpawn(e)
    \/ DispatchSend
    \/ DispatchResponse
    \/ AdvanceSwap

SpecSwap == Init /\ [][NextSwap]_vars

(* Failed refreshes: as the steady state, but the store query of any Loader   *)
(* tick may fail.                                                             *)
CreateLoaderErr == create_timer(MaxLoaderErrTimers, LoaderErrLeads)

AdvanceLoaderErr ==
    /\ now < MaxLoaderErrTime
    /\ SteadyQuiet
    /\ now' = now + 1
    /\ UNCHANGED << response, outcome, store, running, engineVars, tasks, inflight,
                    requests, emitted, lastSent, resched >>

NextLoaderErr ==
    \/ CreateLoaderErr
    \/ \E e \in Engines : LoaderQueryOk(e)
    \/ \E e \in Engines : LoaderQueryErr(e)
    \/ \E e \in Engines : LoaderSwap(e)
    \/ \E e \in Engines : TickBegin(e)
    \/ \E e \in Engines : TickClaimOk(e)
    \/ \E e \in Engines : TickRemoveSpawn(e)
    \/ DispatchSend
    \/ DispatchResponse
    \/ AdvanceLoaderErr

SpecLoaderErr == Init /\ [][NextLoaderErr]_vars

(* Failed claims: as the steady state, with two timers that may be due in the *)
(* same tick, and the claim write of any due timer may fail.                  *)
CreateClaimErr == create_timer(MaxClaimErrTimers, Leads)

AdvanceClaimErr ==
    /\ now < MaxClaimErrTime
    /\ SteadyQuiet
    /\ now' = now + 1
    /\ UNCHANGED << response, outcome, store, running, engineVars, tasks, inflight,
                    requests, emitted, lastSent, resched >>

NextClaimErr ==
    \/ CreateClaimErr
    \/ \E e \in Engines : LoaderQueryOk(e)
    \/ \E e \in Engines : LoaderSwap(e)
    \/ \E e \in Engines : TickBegin(e)
    \/ \E e \in Engines : TickClaimOk(e)
    \/ \E e \in Engines : TickClaimErr(e)
    \/ \E e \in Engines : TickRemoveSpawn(e)
    \/ DispatchSend
    \/ DispatchResponse
    \/ AdvanceClaimErr

SpecClaimErr == Init /\ [][NextClaimErr]_vars

(* Window: requests arrive in the first seconds; the store query of any       *)
(* Loader tick may fail, so that a timer may stay pending until the Loader's  *)
(* window has moved past its execute_at.                                      *)
CreateWindow ==
    now <= MaxWindowRequestTime /\ create_timer(MaxWindowTimers, WindowLeads)

CancelWindow == now <= MaxWindowRequestTime /\ CancelRead

AdvanceWindow ==
    /\ now < MaxWindowTime
    /\ SteadyQuiet
    /\ inflight = {}
    /\ now' = now + 1
    /\ UNCHANGED << response, outcome, store, running, engineVars, tasks, inflight,
                    requests, emitted, lastSent, resched >>

NextWindow ==
    \/ CreateWindow
    \/ CancelWindow
    \/ CancelWrite
    \/ \E e \in Engines : LoaderQueryOk(e)
    \/ \E e \in Engines : LoaderQueryErr(e)
    \/ \E e \in Engines : LoaderSwap(e)
    \/ \E e \in Engines : TickBegin(e)
    \/ \E e \in Engines : TickClaimOk(e)
    \/ \E e \in Engines : TickRemoveSpawn(e)
    \/ DispatchSend
    \/ DispatchResponse
    \/ AdvanceWindow

SpecWindow == Init /\ [][NextWindow]_vars

(* Cache frame: every admission operation (create, update, cancel, get,      *)
(* list) next to the engine; store calls of the Loader and the Ticker may     *)
(* fail; a handler may take time between its read and its write.              *)
CreateFrame == requests < MaxFrameRequests /\ create_timer(MaxFrameTimers, Leads)

UpdateFrame == requests < MaxFrameRequests /\ update_read(UpdateRequests)

CancelFrame == requests < MaxFrameRequests /\ CancelRead

GetFrame == requests < MaxFrameRequests /\ get_timer(1 .. MaxFrameTimers + 1)

ListFrame == requests < MaxFrameRequests /\ list_timers(FrameQueries)

AdvanceFrame ==
    /\ now < MaxFrameTime
    /\ SteadyQuiet
    /\ now' = now + 1
    /\ UNCHANGED << response, outcome, store, running, engineVars, tasks, inflight,
                    requests, emitted, lastSent, resched >>

NextFrame ==
    \/ CreateFrame
    \/ UpdateFrame
    \/ UpdateWrite
    \/ CancelFrame
    \/ CancelWrite
    \/ GetFrame
    \/ ListFrame
    \/ \E e \in Engines : LoaderQueryOk(e)
    \/ \E e \in Engines : LoaderQueryErr(e)
    \/ \E e \in Engines : LoaderSwap(e)
    \/ \E e \in Engines : TickBegin(e)
    \/ \E e \in Engines : TickClaimOk(e)
    \/ \E e \in Engines : TickClaimErr(e)
    \/ \E e \in Engines : TickRemoveSpawn(e)
    \/ DispatchSend
    \/ DispatchResponse
    \/ AdvanceFrame

SpecFrame == Init /\ [][NextFrame]_vars

(* Update: two timers, update requests with every choice of supplied fields; *)
(* the engine as in the steady state, a handler may take time between its     *)
(* read and its write.                                                        *)
CreateUpdate ==
    /\ requests < MaxUpdateRequests
    /\ now <= MaxUpdateCreateTime
    /\ create_timer(MaxUpdateTimers, UpdateLeads)

UpdateFieldsRead == requests < MaxUpdateRequests /\ update_read(UpdateFields)

AdvanceUpdate ==
    /\ now < MaxUpdateTime
    /\ SteadyQuiet
    /\ now' = now + 1
    /\ UNCHANGED << response, outcome, store, running, engineVars, tasks, inflight,
                    requests, emitted, lastSent, resched >>

NextUpdate ==
    \/ CreateUpdate
    \/ UpdateFieldsRead
    \/ UpdateWrite
    \/ \E e \in Engines : LoaderQueryOk(e)
    \/ \E e \in Engines : LoaderSwap(e)
    \/ \E e \in Engines : TickBegin(e)
    \/ \E e \in Engines : TickClaimOk(e)
    \/ \E e \in Engines : TickRemoveSpawn(e)
    \/ DispatchSend
    \/ DispatchResponse
    \/ AdvanceUpdate

SpecUpdate == Init /\ [][NextUpdate]_vars

(* Outcome: the engine keeps running and every store write of an outcome     *)
(* succeeds; the claim write may fail, a timer may be canceled at any point   *)
(* and a callback may stay unanswered for seconds.  The runtime runs every    *)
(* ready task, so the Execution Task goes on to the removal and the spawn,    *)
(* a spawned task sends its request, and a sent request ends with a response, *)
(* a connection error or, after 30 s at the latest, the timeout.              *)
CreateOutcome ==
    /\ requests < MaxOutcomeRequests
    /\ now <= MaxOutcomeRequestTime
    /\ create_timer(MaxOutcomeTimers, OutcomeLeads)

CancelOutcome == requests < MaxOutcomeRequests /\ CancelRead

\* callback.rs lines 41-84: the request ends, in one of the three ways
DispatchEnds == DispatchResponse \/ DispatchTimeout \/ DispatchConnectErr

AdvanceOutcome ==
    /\ now < MaxOutcomeTime
    /\ \A e \in running : EngineQuiet(e)
    /\ now' = now + 1
    /\ UNCHANGED << response, outcome, store, running, engineVars, tasks, inflight,
                    requests, emitted, lastSent, resched >>

NextOutcome ==
    \/ CreateOutcome
    \/ CancelOutcome
    \/ CancelWrite
    \/ \E e \in Engines : LoaderQueryOk(e)
    \/ \E e \in Engines : LoaderSwap(e)
    \/ \E e \in Engines : TickBegin(e)
    \/ \E e \in Engines : TickClaimOk(e)
    \/ \E e \in Engines : TickClaimErr(e)
    \/ \E e \in Engines : TickRemoveSpawn(e)
    \/ DispatchSend
    \/ DispatchResponse
    \/ DispatchTimeout
    \/ DispatchConnectErr
    \/ AdvanceOutcome

SpecOutcome ==
    /\ Init
    /\ [][NextOutcome]_vars
    /\ WF_vars(\E e \in Engines : TickRemoveSpawn(e))
    /\ WF_vars(DispatchSend)
    /\ WF_vars(DispatchEnds)

(* Reclaim: one engine, the clock runs past the Loader's second refresh; a    *)
(* refresh completes within the second of its query, in any interleaving with *)
(* the Ticker; claim writes may fail; callbacks stay unanswered, so that the  *)
(* only writes to a row after its insert are the Ticker's claims.             *)
CreateReclaim ==
    now <= MaxReclaimRequestTime /\ create_timer(MaxReclaimTimers, ReclaimLeads)

AdvanceReclaim ==
    /\ now < MaxReclaimTime
    /\ \A e \in running : EngineQuiet(e) /\ loaderPc[e] = "idle"
    /\ now' = now + 1
    /\ UNCHANGED << response, outcome, store, running, engineVars, tasks, inflight,
                    requests, emitted, lastSent, resched >>

NextReclaim ==
    \/ CreateReclaim
    \/ \E e \in Engines : LoaderQueryOk(e)
    \/ \E e \in Engines : LoaderSwap(e)
    \/ \E e \in Engines : TickBegin(e)
    \/ \E e \in Engines : TickClaimOk(e)
    \/ \E e \in Engines : TickClaimErr(e)
    \/ \E e \in Engines : TickRemoveSpawn(e)
    \/ DispatchSend
    \/ AdvanceReclaim

SpecReclaim == Init /\ [][NextReclaim]_vars

(* Callback: timers are created with a callback of either variant and       *)
(* updated with execute_at alone, metadata alone or a callback of either      *)
(* variant; a handler may take time between its read and its write.  The      *)
(* timers are a minute ahead: the Loader caches them, no tick finds one due.  *)
CreateCallback ==
    /\ requests < MaxCallbackRequests
    /\ create_timer_with(MaxCallbackTimers, CallbackLeads, CallbackConfigs)

UpdateCallback == requests < MaxCallbackRequests /\ update_read(CallbackUpdates)

AdvanceCallback ==
    /\ now < MaxCallbackTime
    /\ SteadyQuiet
    /\ now' = now + 1
    /\ UNCHANGED << response, outcome, store, running, engineVars, tasks, inflight,
                    requests, emitted, lastSent, resched >>

NextCallback ==
    \/ CreateCallback
    \/ UpdateCallback
    \/ UpdateWrite
    \/ \E e \in Engines : LoaderQueryOk(e)
    \/ \E e \in Engines : LoaderSwap(e)
    \/ \E e \in Engines : TickBegin(e)
    \/ AdvanceCallback

SpecCallback == Init /\ [][NextCallback]_vars

(* ------------------------------ claims --------------------------------- *)
Terminal == {Completed, Failed, Canceled}

\* number of live callback tasks of engine e for timer id
LiveTasks(e, id) ==
    LET S == { t \in BagToSet(tasks) : t.eng = e /\ t.timer.id = id }
        RECURSIVE Sum(_)
        Sum(T) == IF T = {} THEN 0
                  ELSE LET t == CHOOSE x \in T : TRUE
                       IN  CopiesIn(t, tasks) + Sum(T \ {t})
    IN  Sum(S)

\* C1: for every timer id, at most one callback task of an engine is live
\* (spawned and not yet finished) at any moment.
C1_AtMostOneLiveTask ==
    \A e \in running : \A id \in DOMAIN store : LiveTasks(e, id) <= 1

\* C2: over the life of a timer at most one outbound callback is emitted for
\* its id, exactly one if it reached completed; a timer whose dispatch failed
\* is never dispatched again.
C2_AtMostOneCallback ==
    \A id \in DOMAIN store :
        /\ emitted[id] <= 1
        /\ store[id].status = Completed => emitted[id] = 1
        /\ store[id].status = Failed => \A e \in running : LiveTasks(e, id) = 0

\* C3: the claim is a compare-and-set on the durable status: on a pending row
\* it sets executing and reports success; on an executing, completed, failed
\* or canceled row it reports no claim and leaves the status unchanged.
C3_ClaimIsCompareAndSet ==
    [][ \A e \in running :
          (tickerPc[e] = "claim" /\ tickerPc'[e] = "remove") =>
            LET id == Head(dueTimers[e]).id
            IN  /\ store[id].status = Pending
                /\ store'[id].status = Executing
      ]_vars

\* C4: with two engines on one store, exactly one of the concurrent claims of
\* a timer succeeds: no id is dispatched by both engines or receives two
\* callbacks.
C4_OneClaimAcrossEngines ==
    \A id \in DOMAIN store :
        /\ Cardinality({ e \in running : LiveTasks(e, id) > 0 }) <= 1
        /\ emitted[id] <= 1

\* C5: terminal states are sticky: once a row's status is completed, failed
\* or canceled, no step changes it.
C5_TerminalSticky ==
    [][ \A id \in DOMAIN store :
          store[id].status \in Terminal => store'[id].status = store[id].status
      ]_vars

\* the row is canceled and was never claimed: no claim of it awaits its
\* spawn, no task of it is live, no callback was emitted for it
CanceledUnclaimed(id) ==
    /\ store[id].status = Canceled
    /\ emitted[id] = 0
    /\ \A e \in running :
          /\ LiveTasks(e, id) = 0
          /\ ~ (tickerPc[e] = "remove" /\ Head(dueTimers[e]).id = id)

\* C6: a timer canceled while pending is never dispatched, also when a
\* snapshot of it is still cached: the claim does not succeed, no callback is
\* emitted and the status stays canceled.
C6_CanceledNeverDispatched ==
    [][ \A id \in DOMAIN store : CanceledUnclaimed(id) => CanceledUnclaimed(id)' ]_vars

\* C7: after an update of a pending timer that moves execute_at later and
\* changes the callback, no callback is emitted before the new execute_at and
\* the callback emitted goes to the updated target.
C7_UpdateReschedules ==
    lastSent.at # NoTime =>
        LET r == resched[lastSent.id]
        IN  (r.at # NoTime /\ r.newAt > r.oldAt /\ r.newUrl # r.oldUrl) =>
                (lastSent.at >= r.newAt /\ lastSent.url = r.newUrl)

\* the row is claimed no later than k seconds after its execute_at
ClaimedWithin(id, k) ==
    /\ store[id].status = Pending => now <= store[id].execute_at + k
    /\ store[id].status = Executing =>
          store[id].updated_at <= store[id].execute_at + k

\* C8: in the steady state every timer accepted at admission and never
\* canceled or updated is claimed no later than one TICK_INTERVAL after its
\* execute_at, whatever the creation time relative to the Loader's refresh.
C8_ClaimedWithinOneTick ==
    \A id \in DOMAIN store : ClaimedWithin(id, TICK_INTERVAL)

\* the row is pending and its execute_at has been reached
PendingDue(id) == store[id].status = Pending /\ store[id].execute_at <= now

\* C9: every pending timer is in the cache by the time it becomes due,
\* given refreshes every 30 s, a 1 min lookahead and at most one missed
\* refresh in a row.
C9_CachedBeforeDue ==
    \A id \in DOMAIN store : PendingDue(id) => id \in DOMAIN cache[1]

\* C10: for every timer, last_error is non-empty if and only if status is
\* failed.
C10_LastErrorIffFailed ==
    \A id \in DOMAIN store :
        (store[id].last_error # NoError) <=> (store[id].status = Failed)

\* C11: for every timer, executed_at is set if and only if status is
\* completed or failed.
C11_ExecutedAtIffFinished ==
    \A id \in DOMAIN store :
        (store[id].executed_at # NoTime) <=> (store[id].status \in {Completed, Failed})

\* the columns an update request may set are the same before and after the step
UpdatableUnchanged(id) ==
    /\ store'[id].execute_at = store[id].execute_at
    /\ store'[id].callback_type = store[id].callback_type
    /\ store'[id].callback_config = store[id].callback_config

\* C12: an update changes execute_at or the callback only while the durable
\* status is pending: on an executing, completed, failed or canceled row no
\* step changes them, also when the status changed after the handler read it.
C12_UpdateOnlyWhilePending ==
    [][ \A id \in DOMAIN store :
          store[id].status # Pending => UpdatableUnchanged(id) ]_vars

\* the step completes this cancel request (db_cancel_timer has run)
CancelCompletes(req) == req.op = "cancel" /\ req \notin inflight'

\* C13: a cancel request sets canceled only on a pending or executing row; on
\* a completed, failed or already canceled row it is refused and leaves the
\* row unchanged.
C13_CancelOnlyLiveRows ==
    [][ \A req \in inflight :
          CancelCompletes(req) =>
             /\ store[req.id].status \in Terminal => store'[req.id] = store[req.id]
             /\ store'[req.id].status = Canceled
                   => store[req.id].status \in {Pending, Executing, Canceled} ]_vars

\* the step ends callback task t after its request was sent: the task has
\* called db_mark_completed or db_mark_failed and leaves the live tasks
TerminalWriteOf(t) ==
    /\ t.pc = "sent"
    /\ CopiesIn(t, tasks') < CopiesIn(t, tasks)

\* C14: terminal writes are idempotent: db_mark_completed or db_mark_failed on
\* a row that is already completed, failed or canceled leaves status,
\* executed_at, last_error and updated_at as they were.
C14_TerminalWriteIdempotent ==
    [][ \A t \in BagToSet(tasks) :
          (TerminalWriteOf(t) /\ store[t.timer.id].status \in Terminal)
              => store'[t.timer.id] = store[t.timer.id] ]_vars

\* the message the boot-time reaper records
EngineRestartMessage == << "engine restart" >>

\* C15: reap-on-boot: when the engine process is started again, every timer
\* left in executing by the prior run is marked failed with last_error
\* "engine restart", so none stays in executing.
C15_ReapOnBoot ==
    [][ \A e \in Engines :
          (e \notin running /\ e \in running') =>
             \A id \in DOMAIN store :
                store[id].status = Executing =>
                   /\ store'[id].status = Failed
                   /\ store'[id].last_error = EngineRestartMessage ]_vars

\* the step ends with the response of an admission handler
AdmissionResponds == response'.n # response.n

\* C16: a create request, or an update request that supplies execute_at, is
\* rejected with 400 and code 2 and creates or changes no row when execute_at
\* is at most 5 s after the handler's clock (equality included), and passes
\* the validation when it is later: the create stores the row, the update
\* stores the new execute_at unless the timer's status refuses the update.
C16_ValidatesExecuteAt ==
    [][ (AdmissionResponds /\ response'.op \in {"create", "update"} /\ response'.hasAt)
          => LET r == response'
             IN  IF r.lead <= 5
                 THEN r.status = 400 /\ r.code = 2 /\ store' = store
                 ELSE \/ /\ r.op = "create"
                         /\ r.status = 201
                         /\ r.id \notin DOMAIN store
                         /\ store'[r.id].execute_at = r.execute_at
                      \/ /\ r.op = "update"
                         /\ r.status = 200
                         /\ store'[r.id].execute_at = r.execute_at
                      \/ /\ r.op = "update"
                         /\ r.status = 400 /\ r.code = 2
                         /\ store[r.id].status \in Terminal
                         /\ store' = store ]_vars

\* C16 witness: a timer accepted 6 s ahead is pending and an update of it
\* with execute_at exactly 5 s ahead has just been rejected
C16_BoundaryRejectedWitness ==
    /\ response.op = "update"
    /\ response.hasAt
    /\ response.lead = 5
    /\ response.status = 400
    /\ response.id \in DOMAIN store
    /\ store[response.id].status = Pending
    /\ store[response.id].execute_at = store[response.id].created_at + 6

\* C17: every stored timer has execute_at strictly more than 5 s after its
\* created_at, and every update that sets execute_at leaves it strictly more
\* than 5 s after the row's new updated_at.
C17_ExecuteAtAfterStamp ==
    [][ \A id \in DOMAIN store' :
          /\ id \notin DOMAIN store
                => store'[id].execute_at > store'[id].created_at + MIN_LEAD
          /\ (id \in DOMAIN store /\ store'[id].execute_at # store[id].execute_at)
                => store'[id].execute_at > store'[id].updated_at + MIN_LEAD ]_vars

\* C18: within one tick the due timers are claimed in ascending execute_at
\* order: the timer being claimed has no later execute_at than any timer
\* still to be claimed in the same tick.
C18_ClaimedInExecuteAtOrder ==
    [][ \A e \in running :
          (tickerPc[e] = "claim" /\ tickerPc'[e] = "remove") =>
             \A i \in 1 .. Len(dueTimers[e]) :
                Head(dueTimers[e]).execute_at <= dueTimers[e][i].execute_at ]_vars

\* the message begins with the pieces of the prefix
BeginsWith(msg, prefix) ==
    /\ Len(msg) >= Len(prefix)
    /\ SubSeq(msg, 1, Len(prefix)) = prefix

\* C19: a finished HTTP dispatch whose store write succeeds records one
\* outcome: a response status in [200, 300) writes completed; any other
\* status, a timeout or a connection error writes failed with a non-empty
\* last_error, beginning "HTTP <code>" for a response; executed_at is set in
\* both cases.
C19_DispatchRecordsOutcome ==
    [][ \A t \in BagToSet(tasks) :
          (TerminalWriteOf(t) /\ outcome'.recorded) =>
             LET o == outcome'
                 row == store'[t.timer.id]
             IN  /\ o.id = t.timer.id
                 /\ row.executed_at # NoTime
                 /\ IF o.kind = "response" /\ 200 <= o.code /\ o.code < 300
                    THEN row.status = Completed
                    ELSE /\ row.status = Failed
                         /\ row.last_error # NoError
                         /\ o.kind = "response" =>
                               BeginsWith(row.last_error, << "HTTP ", ToString(o.code) >>)
      ]_vars

\* C19 witness: a response with status 300 has been recorded as failed
C19_Status300FailedWitness ==
    /\ outcome.kind = "response"
    /\ outcome.code = 300
    /\ outcome.recorded
    /\ store[outcome.id].status = Failed
    /\ store[outcome.id].executed_at # NoTime

\* C20: when the store write that records a dispatch outcome fails, the
\* callback task ends and nothing else changes: no store row, no emission, and
\* the Loader and the Ticker go on; afterwards the timer stays executing and
\* no further callback is emitted for it.
C20_RecordFailureSwallowed ==
    [][ /\ \A t \in BagToSet(tasks) :
             (TerminalWriteOf(t) /\ ~ outcome'.recorded) =>
                /\ tasks' = tasks (-) SetToBag({t})
                /\ store' = store
                /\ emitted' = emitted
                /\ running' = running
                /\ << loaderPc', tickerPc', nextLoad', nextTick' >>
                      = << loaderPc, tickerPc, nextLoad, nextTick >>
        /\ ~ outcome.recorded =>
              /\ store'[outcome.id].status = Executing
              /\ emitted'[outcome.id] = emitted[outcome.id]
      ]_vars

\* C20 witness: the outcome of a timer was not recorded, its callback task is
\* gone, the timer is executing and the Ticker has ticked again since the claim
C20_UnrecordedWitness ==
    /\ ~ outcome.recorded
    /\ tasks = EmptyBag
    /\ store[outcome.id].status = Executing
    /\ emitted[outcome.id] = 1
    /\ nextTick[1] > store[outcome.id].updated_at + TICK_INTERVAL

\* C21: a create that succeeds inserts one new row: its id differs from every
\* existing id, its status is pending, created_at equals updated_at, last_error
\* and executed_at are unset; no other row changes.
C21_CreateInsertsPendingRow ==
    [][ (AdmissionResponds /\ response'.op = "create" /\ response'.status = 201)
          => LET id == response'.id
             IN  /\ id \notin DOMAIN store
                 /\ DOMAIN store' = DOMAIN store \cup {id}
                 /\ store'[id].id = id
                 /\ store'[id].status = Pending
                 /\ store'[id].created_at = store'[id].updated_at
                 /\ store'[id].last_error = NoError
                 /\ store'[id].executed_at = NoTime
                 /\ \A i \in DOMAIN store : store'[i] = store[i] ]_vars

\* C21 witness: a second timer has just been created next to a claimed one:
\* the new row is pending with equal stamps, the older row is still executing
C21_SecondRowWitness ==
    /\ response.op = "create"
    /\ response.status = 201
    /\ response.id = 2
    /\ store[1].status = Executing
    /\ store[2].status = Pending
    /\ store[2].created_at = now
    /\ store[2].updated_at = store[2].created_at
    /\ store[2].created_at > store[1].created_at

\* C22: a successful list answers with the clamped paging parameters: limit
\* 50 when absent, 1 when the requested limit is 0 or negative, 200 when it is
\* above 200 and the requested value otherwise; offset 0 when the requested
\* offset is negative; and the rows returned are those of the echoed limit and
\* offset.
C22_ListClampsPaging ==
    [][ (AdmissionResponds /\ response'.op = "list" /\ response'.status = 200)
          => LET r == response'
                 q == r.query
             IN  /\ r.limit = IF ~ q.limit.some THEN 50
                               ELSE IF q.limit.val <= 0 THEN 1
                               ELSE IF q.limit.val > 200 THEN 200
                               ELSE q.limit.val
                 /\ (q.offset.some /\ q.offset.val < 0) => r.offset = 0
                 /\ (q.offset.some /\ q.offset.val >= 0) => r.offset = q.offset.val
                 /\ IF r.total - r.offset <= 0 THEN Len(r.timers) = 0
                    ELSE IF r.total - r.offset <= r.limit
                    THEN Len(r.timers) = r.total - r.offset
                    ELSE Len(r.timers) = r.limit ]_vars

\* C22 witness: with two rows stored, a list asked with limit 0 and offset -1
\* has answered limit 1, offset 0 and one row
C22_ClampedWitness ==
    /\ response.op = "list"
    /\ response.status = 200
    /\ response.query.limit = SomeInt(0)
    /\ response.query.offset = SomeInt(-1)
    /\ response.limit = 1
    /\ response.offset = 0
    /\ response.total = 2
    /\ Len(response.timers) = 1

\* the step is the Execution Task's read of the cache at a tick
TickReads(e) == tickerPc[e] = "idle" /\ nextTick'[e] = nextTick[e] + TICK_INTERVAL

\* C23: every read of the cache by the Ticker sees a complete mapping: either
\* no refresh has begun to replace the mapping, or the mapping holds every row
\* of the new query result; never the emptied or partially filled mapping.
C23_TickerSeesWholeMapping ==
    [][ \A e \in running :
          TickReads(e) =>
             \/ loaderPc[e] \in {"idle", "swap"}
             \/ cache[e] = CacheFrom(loaderBuf[e]) ]_vars

\* C23 witness: the Ticker has read timer 1 from the mapping of the previous
\* refresh, and the Loader has since emptied the cache and not yet inserted
\* the rows of its new result
C23_MidSwapWitness ==
    /\ tickerPc[1] = "claim"
    /\ Head(dueTimers[1]).id = 1
    /\ loaderPc[1] = "insert"
    /\ loaderBuf[1] # << >>
    /\ cache[1] = << >>
    /\ now >= LOAD_INTERVAL

\* the step is a Loader tick of engine e whose store query fails
LoaderFails(e) == nextLoad'[e] # nextLoad[e] /\ loadMissed'[e]

\* the step is a Loader tick of engine e, the first after a failed one, whose
\* store query succeeds
LoaderRecovers(e) == loadMissed[e] /\ loaderPc[e] = "idle" /\ loaderPc'[e] = "swap"

\* C24: a Loader tick whose query fails leaves the cache and every row as they
\* were and the Loader waits for its next tick, one interval later; the
\* successful refresh after it takes the rows of the window at its time.
C24_LoaderFailureSkipsTick ==
    [][ \A e \in running :
          /\ LoaderFails(e) =>
                /\ cache' = cache
                /\ store' = store
                /\ loaderPc'[e] = "idle"
                /\ nextLoad'[e] = nextLoad[e] + LOAD_INTERVAL
          /\ LoaderRecovers(e) =>
                /\ nextLoad[e] <= now
                /\ { loaderBuf'[e][i].id : i \in 1 .. Len(loaderBuf'[e]) }
                      = { id \in DOMAIN store :
                            /\ store[id].status = Pending
                            /\ store[id].execute_at > now - LOOKBACK
                            /\ store[id].execute_at <= now + LOOKAHEAD } ]_vars

\* C24 witness: the refresh at 30 s has failed while the cache held a timer
\* loaded by the refresh before it; the timer is still cached
C24_FailedRefreshWitness ==
    /\ loadMissed[1]
    /\ now >= LOAD_INTERVAL
    /\ nextLoad[1] = 2 * LOAD_INTERVAL
    /\ cache[1] # << >>

\* the step is the failed claim write of engine e for the timer at the head
\* of its due timers
ClaimFails(e) == tickerPc[e] = "claim" /\ dueTimers'[e] # dueTimers[e]

\* C25: a failed claim write skips that timer only: no row, task, emission or
\* cache entry changes, the Ticker goes on with the other due timers of the
\* tick, and every tick takes all cached due timers, the skipped one included.
C25_ClaimFailureSkipsOneTimer ==
    [][ \A e \in running :
          /\ ClaimFails(e) =>
                /\ store' = store
                /\ tasks' = tasks
                /\ emitted' = emitted
                /\ cache' = cache
                /\ dueTimers'[e] = Tail(dueTimers[e])
                /\ tickerPc'[e] = IF Tail(dueTimers[e]) # << >> THEN "claim" ELSE "idle"
          /\ TickReads(e) =>
                { dueTimers'[e][i].id : i \in 1 .. Len(dueTimers'[e]) }
                   = { id \in DOMAIN cache[e] : cache[e][id].execute_at <= now } ]_vars

\* C25 witness: two timers were due in the same tick; the claim of timer 1
\* failed and timer 2 was claimed; timer 1 is still pending and cached, and a
\* later tick is about to claim it
C25_RetriedWitness ==
    /\ DOMAIN store = {1, 2}
    /\ store[1].execute_at = store[2].execute_at
    /\ store[2].status # Pending
    /\ store[2].updated_at = store[2].execute_at
    /\ store[1].status = Pending
    /\ 1 \in DOMAIN cache[1]
    /\ now > store[1].execute_at
    /\ tickerPc[1] = "claim"
    /\ Head(dueTimers[1]).id = 1

\* the step is a Loader tick of engine e whose store query succeeds
LoaderQueries(e) == loaderPc[e] = "idle" /\ loaderPc'[e] = "swap"

LoaderRefreshes(e) == loaderPc[e] = "swap" /\ loaderPc'[e] = "idle"

\* the step is the Ticker's removal of the timer at the head of its due
\* timers, which follows the successful claim write for that timer
TickerRemoves(e) == tickerPc[e] = "remove" /\ tickerPc'[e] # "remove"

\* the step belongs to an admission handler: a request arrives or is answered
AdmissionStep == requests' # requests \/ inflight' # inflight \/ AdmissionResponds

\* C27: the cache of an engine changes only in a Loader refresh, which
\* replaces the whole mapping by the rows of its query result, and in the
\* Ticker's removal of the id whose claim write has just succeeded; no step
\* of create, update, cancel, get or list changes a cache.
C27_CacheWriters ==
    [][ /\ \A e \in Engines :
             cache'[e] # cache[e] =>
                \/ /\ LoaderRefreshes(e)
                   /\ cache'[e] = CacheFrom(loaderBuf[e])
                \/ /\ TickerRemoves(e)
                   /\ DOMAIN cache'[e] = DOMAIN cache[e] \ {Head(dueTimers[e]).id}
                   /\ \A id \in DOMAIN cache'[e] : cache'[e][id] = cache[e][id]
        /\ AdmissionStep => cache' = cache ]_vars

\* C27 witness: a cancel has just been answered with 200 and the canceled
\* timer is still in the cache
C27_CanceledStillCachedWitness ==
    /\ response.op = "cancel"
    /\ response.status = 200
    /\ store[response.id].status = Canceled
    /\ response.id \in DOMAIN cache[1]

\* the step answers this update request with 200 (db_update_timer has run)
UpdateCompletes(req) ==
    /\ req.op = "update"
    /\ AdmissionResponds
    /\ response'.n = req.n
    /\ response'.status = 200

\* C28: an update answered with 200 sets updated_at and, of execute_at, the
\* callback (callback_config with callback_type) and metadata, those the
\* request supplies, to the supplied values; id, created_at, status,
\* last_error, executed_at and the fields not supplied keep their values, and
\* no other row changes.
C28_UpdateFrame ==
    [][ \A req \in inflight :
          UpdateCompletes(req) =>
             LET old == store[req.id]
                 new == store'[req.id]
             IN  /\ DOMAIN store' = DOMAIN store
                 /\ \A i \in DOMAIN store \ {req.id} : store'[i] = store[i]
                 /\ new.id = old.id
                 /\ new.created_at = old.created_at
                 /\ new.status = old.status
                 /\ new.last_error = old.last_error
                 /\ new.executed_at = old.executed_at
                 /\ new.updated_at = now
                 /\ new.execute_at = IF req.hasAt THEN req.execute_at ELSE old.execute_at
                 /\ new.callback_config =
                       IF req.hasCb THEN req.callback_config ELSE old.callback_config
                 /\ new.callback_type =
                       IF req.hasCb THEN req.callback_config.tag ELSE old.callback_type
                 /\ new.metadata = IF req.hasMeta THEN req.metadata ELSE old.metadata
      ]_vars

\* C28 witness: next to another row, an update that supplied only metadata
\* has been answered with 200: the row has the new metadata, a later
\* updated_at and the execute_at and callback it was created with
C28_MetadataOnlyWitness ==
    /\ response.op = "update"
    /\ response.status = 200
    /\ ~ response.hasAt
    /\ DOMAIN store = {1, 2}
    /\ store[response.id].metadata = MetaB
    /\ store[response.id].callback_config = StubA
    /\ store[response.id].execute_at = store[response.id].created_at + 6
    /\ store[response.id].updated_at > store[response.id].created_at

\* the step spawns a callback task of engine e for timer id
Spawns(e, id) == LiveTasks(e, id)' > LiveTasks(e, id)

\* the step emits a callback for timer id
Emits(id) == emitted'[id] > emitted[id]

\* C29: claim precedes dispatch. The Ticker comes to the removal of a timer
\* only by a step that writes executing to its row; a callback task is
\* spawned only by the removal step that follows, which takes the id out of
\* the cache; a callback is emitted only by a spawned task, for a row whose
\* status has left pending; no row with an emitted callback is pending.
C29_ClaimPrecedesDispatch ==
    [][ /\ \A e \in running :
             (tickerPc[e] # "remove" /\ tickerPc'[e] = "remove") =>
                /\ tickerPc[e] = "claim"
                /\ store'[Head(dueTimers[e]).id].status = Executing
        /\ \A e \in running : \A id \in DOMAIN store :
             Spawns(e, id) =>
                /\ tickerPc[e] = "remove"
                /\ Head(dueTimers[e]).id = id
                /\ id \notin DOMAIN cache'[e]
                /\ store[id].status # Pending
        /\ \A id \in DOMAIN store :
             Emits(id) =>
                /\ \E t \in BagToSet(tasks) : t.timer.id = id /\ t.pc = "spawned"
                /\ store[id].status # Pending
        /\ \A id \in DOMAIN store' :
             store'[id].status = Pending => emitted'[id] = 0 ]_vars

\* C29 witness: the first claim write for timer 1 failed and no callback was
\* sent; a later claim succeeded, the id left the cache and one callback has
\* been sent after it
C29_EmittedAfterClaimWitness ==
    /\ 1 \in DOMAIN store
    /\ store[1].status = Executing
    /\ store[1].updated_at > store[1].execute_at
    /\ 1 \notin DOMAIN cache[1]
    /\ emitted[1] = 1
    /\ lastSent.id = 1
    /\ lastSent.at >= store[1].updated_at

\* the latest Loader tick of engine e succeeded, at or after the execute_at of
\* timer id, its refresh is complete, and the Ticker has ticked in a later
\* second
RecoveredSince(e, id) ==
    /\ ~ loadMissed[e]
    /\ loaderPc[e] = "idle"
    /\ nextLoad[e] - LOAD_INTERVAL >= store[id].execute_at
    /\ now > nextLoad[e] - LOAD_INTERVAL
    /\ EngineQuiet(e)

\* C30: no loss: a timer that was created and not canceled is claimed once
\* the store calls succeed again, however long after its execute_at that is:
\* when a Loader refresh at or after its execute_at has succeeded and the
\* Ticker has ticked since, with its claim writes succeeding, the timer is no
\* longer pending.
C30_NoLoss ==
    \A id \in DOMAIN store :
        RecoveredSince(1, id) => store[id].status # Pending

\* a callback task of timer id ends in this step
TaskEnds(id) == \E e \in Engines : LiveTasks(e, id)' < LiveTasks(e, id)

C32_NeverDispatchedEarly ==
    /\ \A e \in running : \A i \in 1 .. Len(dueTimers[e]) :
           store[dueTimers[e][i].id].execute_at <= now
    /\ \A id \in DOMAIN store :
           store[id].status \in {Executing, Completed, Failed}
               => store[id].execute_at <= now
    /\ \A t \in BagToSet(tasks) : store[t.timer.id].execute_at <= now
    /\ lastSent.id \in DOMAIN store
           => store[lastSent.id].execute_at <= lastSent.at

\* a timer was claimed at the tick of its execute_at and its callback was sent
\* within that second, while the other timer is cached and not yet due
C32_OnTimeWitness ==
    \E id \in DOMAIN store, other \in DOMAIN store :
        /\ lastSent.id = id
        /\ lastSent.at = store[id].execute_at
        /\ store[other].execute_at > now
        /\ store[other].status = Pending
        /\ \E e \in running : other \in DOMAIN cache[e]

\* C33: no operation sets a timer's status back to pending: a row that is
\* pending after a step either was pending before it or was inserted by it, so
\* a row that has left pending is never pending again.
C33_PendingOnlyByCreate ==
    [][ \A id \in DOMAIN store' :
          store'[id].status = Pending
              => (id \notin DOMAIN store \/ store[id].status = Pending)
      ]_vars

\* an update was written to a row after it had been claimed, and the row is
\* still executing
C33_UpdatedAfterClaimWitness ==
    \E id \in DOMAIN store :
        /\ store[id].status = Executing
        /\ response.op = "update" /\ response.id = id /\ response.status = 200
        /\ store[id].callback_config = StubB
        /\ resched[id] = NoResched

\* the step is a successful claim write of Ticker e for timer id
Claims(e, id) ==
    /\ tickerPc[e] = "claim" /\ tickerPc'[e] = "remove"
    /\ Head(dueTimers[e]).id = id

\* the step is the removal by Ticker e of the claimed timer id
Removes(e, id) == TickerRemoves(e) /\ Head(dueTimers[e]).id = id

\* ids of the due timers Ticker e still has to handle in this tick
DueListIds(e) == { dueTimers[e][i].id : i \in 1 .. Len(dueTimers[e]) }

\* the instant of the last completed cache replacement of engine e (a refresh
\* completes within the second of its query); negative when there was none
LastRefresh(e) ==
    IF loaderPc[e] = "idle" THEN nextLoad[e] - LOAD_INTERVAL
    ELSE nextLoad[e] - 2 * LOAD_INTERVAL

\* C34: between two Loader refreshes a Ticker claims an id at most once: the
\* removal that follows a successful claim leaves the id neither in the cache
\* nor among the due timers still to be handled, an id enters the cache only
\* in a Loader cache replacement, and a successful claim of an id this Ticker
\* has claimed before comes after a cache replacement that is not older than
\* the previous claim.
C34_OneClaimPerRefresh ==
    [][ \A e \in running : \A id \in DOMAIN store :
          /\ Removes(e, id)
                => id \notin DOMAIN cache'[e] /\ id \notin DueListIds(e)'
          /\ (id \notin DOMAIN cache[e] /\ id \in DOMAIN cache'[e])
                => LoaderRefreshes(e)
          /\ (Claims(e, id) /\ store[id].status = Executing)
                => LastRefresh(e) >= store[id].updated_at
      ]_vars

\* the timer was claimed a second time by the same Ticker: the refresh of
\* t = 30 queried before the first claim and re-inserted the id after its
\* removal
C34_ReclaimedWitness ==
    \E e \in running, id \in DOMAIN store :
        /\ LiveTasks(e, id) = 2
        /\ store[id].status = Executing
        /\ store[id].updated_at = store[id].execute_at + TICK_INTERVAL
        /\ LastRefresh(e) = store[id].execute_at

\* C35: in every stored row the callback_type column agrees with the variant
\* of callback_config: http with the HTTP callback (a url), nats with the NATS
\* callback (a topic), after create and after any sequence of updates.
C35_CallbackTypeMatchesConfig ==
    \A id \in DOMAIN store :
        \/ /\ store[id].callback_type = "http"
           /\ store[id].callback_config.tag = "http"
           /\ "url" \in DOMAIN store[id].callback_config
        \/ /\ store[id].callback_type = "nats"
           /\ store[id].callback_config.tag = "nats"
           /\ "topic" \in DOMAIN store[id].callback_config

\* a timer was updated with metadata alone and then with a callback of the
\* other variant: its HTTP callback was replaced by a NATS callback
C35_VariantChangedWitness ==
    \E id \in DOMAIN store :
        /\ response.op = "update" /\ response.id = id /\ response.status = 200
        /\ resched[id] # NoResched
        /\ resched[id].oldUrl = StubA.url
        /\ resched[id].newUrl = TopicA.topic
        /\ store[id].callback_type = "nats"
        /\ store[id].metadata = MetaB

====
